---- MODULE Spec2Model ----
(***************************************************************************)
(* Model of ts-node-api-spec-helper: the `update` program                  *)
(* (src/src/api-docs-update.ts) that rebuilds the main spec's `paths` map   *)
(* from the path files, and the `generate` program                          *)
(* (src/src/api-docs-generator.ts) that writes a stub from a template.      *)
(*                                                                          *)
(* Strings are sequences of one-character strings, so startsWith,           *)
(* toLowerCase, split, trim and replace are computed character by           *)
(* character.  A YAML mapping is an ordered map: a sequence of [k, v]       *)
(* records with distinct keys in insertion order (JavaScript keeps the      *)
(* insertion order of non-integer keys, js-yaml loads and dumps in that     *)
(* order with sortKeys: false).                                             *)
(***************************************************************************)
EXTENDS Naturals, Sequences, FiniteSets, TLC

VARIABLES
    \* ---- update program -------------------------------------------------
    mainSpec,     \* the main spec document on disk
    tree,         \* the paths directory: [exists, entries]
    pc,           \* position in main(): "start", "cleared", "rebuild", "done"
    apiDocs,      \* the in-memory main spec
    pathFiles,    \* the list walkDir returned
    idx,          \* index of the next path file of the for loop
    totalRefs,    \* the reference counter
    exitCode,     \* exit code of the finished run
    writes,       \* the writes of the main spec made by this run
    filesRead,    \* path files loaded by this run so far
    dirChecked,   \* the run has tested the paths directory
    loadFailed,   \* a loadYaml of this run has caught an error
    writesAfterFail, \* writes of the main spec made after such an error
    prevOut,      \* main spec on disk when the previous run ended
    runs,         \* number of the current run
    \* ---- generate program -----------------------------------------------
    gpc,          \* position in main(): "askMethod" ... "written"
    template,     \* the text of the template file
    method,       \* validateMethod's loop variable methodLower
    methodLower,  \* what validateMethod returned
    rawPath,      \* the first answer to the path prompt
    path,         \* validatePath's loop variable
    pathOnly,     \* what validatePath returned
    pathAnswers,  \* every answer given to the path prompts, in order
    methodAnswers,\* every answer given to the method prompts, in order
    pathParams,   \* extractPathParams' result
    queryParams,  \* extractQueryParams' result
    rendered,     \* the template with its variables replaced
    output,       \* the text written to the output file
    \* ---- parameters fragment alone --------------------------------------
    ppc,          \* "input" or "done"
    inPathParams, \* argument pathParams
    inQueryParams,\* argument queryParams
    fragment      \* finalParamsYaml

uvars == <<mainSpec, tree, pc, apiDocs, pathFiles, idx, totalRefs, exitCode,
           writes, filesRead, dirChecked, loadFailed, writesAfterFail,
           prevOut, runs>>
gvars == <<gpc, template, method, methodLower, rawPath, path, pathOnly,
           pathAnswers, methodAnswers, pathParams, queryParams, rendered,
           output>>
pvars == <<ppc, inPathParams, inQueryParams, fragment>>
vars == <<uvars, gvars, pvars>>

\* ------------------------------------------------------------------ bounds
\* entries of the paths directory, update runs in a row, re-prompts of one
\* validation loop, parameters of one list
MaxFiles == 2
MaxRuns == 2
MaxRetries == 2
MaxParams == 2

\* ----------------------------------------------------------------- strings
Lower == <<"a","b","c","d","e","f","g","h","i","j","k","l","m",
           "n","o","p","q","r","s","t","u","v","w","x","y","z">>
Upper == <<"A","B","C","D","E","F","G","H","I","J","K","L","M",
           "N","O","P","Q","R","S","T","U","V","W","X","Y","Z">>

ToLowerChar(c) ==
    IF \E i \in 1..Len(Upper) : Upper[i] = c
    THEN Lower[CHOOSE i \in 1..Len(Upper) : Upper[i] = c]
    ELSE c

ToUpperChar(c) ==
    IF \E i \in 1..Len(Lower) : Lower[i] = c
    THEN Upper[CHOOSE i \in 1..Len(Lower) : Lower[i] = c]
    ELSE c

RECURSIVE MapChars(_, _)
MapChars(s, up) ==
    IF s = <<>> THEN <<>>
    ELSE <<IF up THEN ToUpperChar(Head(s)) ELSE ToLowerChar(Head(s))>>
         \o MapChars(Tail(s), up)

ToLowerCase(s) == MapChars(s, FALSE)
ToUpperCase(s) == MapChars(s, TRUE)

StartsWith(s, p) == Len(p) <= Len(s) /\ SubSeq(s, 1, Len(p)) = p
EndsWith(s, p) == Len(p) <= Len(s) /\ SubSeq(s, Len(s) - Len(p) + 1, Len(s)) = p
Includes(s, c) == \E i \in 1..Len(s) : s[i] = c
InList(list, x) == \E i \in 1..Len(list) : list[i] = x
Drop(s, n) == SubSeq(s, n + 1, Len(s))

\* text.split(pat).join(val): every occurrence, left to right, not overlapping
RECURSIVE ReplaceAll(_, _, _)
ReplaceAll(text, pat, val) ==
    IF text = <<>> THEN <<>>
    ELSE IF StartsWith(text, pat) THEN val \o ReplaceAll(Drop(text, Len(pat)), pat, val)
    ELSE <<Head(text)>> \o ReplaceAll(Tail(text), pat, val)

\* ------------------------------------------------------------ ordered maps
Has(m, key) == \E i \in 1..Len(m) : m[i].k = key
Get(m, key) == m[CHOOSE i \in 1..Len(m) : m[i].k = key].v
\* obj[key] = val: an existing key keeps its place, a new key goes last
Put(m, key, val) ==
    IF Has(m, key)
    THEN [i \in 1..Len(m) |-> IF m[i].k = key THEN [k |-> key, v |-> val] ELSE m[i]]
    ELSE Append(m, [k |-> key, v |-> val])
\* delete obj[key]
Del(m, key) == SelectSeq(m, LAMBDA e : e.k # key)
KeysOf(m) == [i \in 1..Len(m) |-> m[i].k]

\* values of a document
Null == [t |-> "null"]
Str(s) == [t |-> "str", s |-> s]
Map(m) == [t |-> "map", m |-> m]
Ref(r) == [t |-> "ref", s |-> r]
\* JavaScript truthiness of a loaded YAML value
Truthy(val) == val.t \in {"map", "ref"} \/ (val.t = "str" /\ val.s # <<>>)

\* ============================ update: helpers ============================
validMethods ==
    << <<"g","e","t">>, <<"p","o","s","t">>, <<"p","u","t">>,
       <<"p","a","t","c","h">>, <<"d","e","l","e","t","e">>,
       <<"h","e","a","d">>, <<"o","p","t","i","o","n","s">>,
       <<"t","r","a","c","e">>, <<"c","o","n","n","e","c","t">> >>

apiDocsPath == <<"v","1","/","a","p","i",".","y","a","m","l">>
\* path.dirname(apiDocsPath)
baseDir == <<"v","1">>
\* path.join(a, b)
Join(a, b) == a \o <<"/">> \o b
pathsDir == Join(baseDir, <<"p","a","t","h","s">>)
\* path.resolve(p) of a relative path: under the working directory
cwd == <<"/","w">>
Resolve(p) == IF StartsWith(p, <<"/">>) THEN p ELSE Join(cwd, p)

encodeJsonPointer(str) == ReplaceAll(str, <<"/">>, <<"~","1">>)

getRelativePath(filePath, base) ==
    LET realFilePath == Resolve(filePath)
        realBaseDir == Resolve(base)
    IN IF ~StartsWith(realFilePath, realBaseDir) THEN filePath
       ELSE <<".","/">> \o Drop(realFilePath, Len(realBaseDir) + 1)

\* `${relPath}#/paths/${encodedPath}/${method}`
BuildRef(filePath, apiPath, methodKey) ==
    getRelativePath(filePath, baseDir) \o <<"#","/","p","a","t","h","s","/">>
        \o encodeJsonPointer(apiPath) \o <<"/">> \o methodKey

\* the entries of a directory, recursively: files with a YAML extension
RECURSIVE walkDir(_, _)
walkDir(dirPath, entries) ==
    IF entries = <<>> THEN <<>>
    ELSE LET e == Head(entries)
             filePath == Join(dirPath, e.name)
             here == IF e.kind = "dir" THEN walkDir(filePath, e.entries)
                     ELSE IF EndsWith(e.name, <<".","y","a","m","l">>)
                             \/ EndsWith(e.name, <<".","y","m","l">>)
                          THEN <<filePath>>
                          ELSE <<>>
         IN here \o walkDir(dirPath, Tail(entries))

\* the content of the file at a path of the tree
RECURSIVE FileAt(_, _, _)
FileAt(dirPath, entries, filePath) ==
    LET e == Head(entries)
        p == Join(dirPath, e.name)
    IN IF e.kind = "file" /\ p = filePath THEN e.doc
       ELSE IF e.kind = "dir" /\ StartsWith(filePath, p \o <<"/">>)
            THEN FileAt(p, e.entries, filePath)
            ELSE FileAt(dirPath, Tail(entries), filePath)

\* loadYaml: the document, or {} when reading or parsing threw
EmptyDoc == <<>>
loadYaml(ok, doc) == IF ok THEN doc ELSE EmptyDoc

\* a filter that only knows the x- and $ markers
SkipMethodMarkersOnly(methodKey) ==
    \/ StartsWith(methodKey, <<"x","-">>)
    \/ StartsWith(methodKey, <<"$">>)

\* the method filter of the rebuild loop
SkipMethod(methodKey) ==
    \/ StartsWith(methodKey, <<"x","-">>)
    \/ StartsWith(methodKey, <<"$">>)
    \/ ~InList(validMethods, ToLowerCase(methodKey))

\* an assignment that keeps an entry already there
SetRefFirstWins(paths, apiPath, methodKey, ref) ==
    LET p1 == IF Has(paths, apiPath) THEN paths ELSE Put(paths, apiPath, Map(<<>>))
    IN IF Has(Get(p1, apiPath).m, methodKey) THEN p1
       ELSE Put(p1, apiPath, Map(Put(Get(p1, apiPath).m, methodKey, Ref(ref))))

\* apiDocs.paths[apiPath][method] = {$ref: ref}, creating paths[apiPath]
SetRef(paths, apiPath, methodKey, ref) ==
    LET p1 == IF Has(paths, apiPath) THEN paths ELSE Put(paths, apiPath, Map(<<>>))
    IN Put(p1, apiPath, Map(Put(Get(p1, apiPath).m, methodKey, Ref(ref))))

\* for (const method in pathObj): acc = [paths, total, threw]
RECURSIVE ProcessMethods(_, _, _, _)
ProcessMethods(acc, filePath, apiPath, methods) ==
    IF methods = <<>> \/ acc.threw THEN acc
    ELSE LET m == Head(methods) IN
         IF SkipMethod(m) THEN ProcessMethods(acc, filePath, apiPath, Tail(methods))
         ELSE IF acc.paths.t # "map"
              \* apiDocs.paths is undefined: reading paths[apiPath] throws
              THEN [acc EXCEPT !.threw = TRUE]
              ELSE ProcessMethods(
                     [acc EXCEPT !.paths = Map(SetRef(acc.paths.m, apiPath, m,
                                                     BuildRef(filePath, apiPath, m))),
                                 !.total = acc.total + 1],
                     filePath, apiPath, Tail(methods))

\* for (const apiPath in pathFile.paths)
RECURSIVE ProcessPaths(_, _, _)
ProcessPaths(acc, filePath, filePaths) ==
    IF filePaths = <<>> \/ acc.threw THEN acc
    ELSE LET e == Head(filePaths) IN
         IF e.v.t # "map" THEN ProcessPaths(acc, filePath, Tail(filePaths))
         ELSE ProcessPaths(ProcessMethods(acc, filePath, e.k, KeysOf(e.v.m)),
                           filePath, Tail(filePaths))

\* a Clear phase that keeps a paths map already there
ClearPathsKeep(doc) ==
    IF Has(doc, "paths") /\ Truthy(Get(doc, "paths")) THEN doc
    ELSE Put(doc, "paths", Map(<<>>))

\* the Clear phase on the loaded document
ClearPaths(doc) ==
    LET d1 == IF Has(doc, "paths") /\ Truthy(Get(doc, "paths"))
              THEN Del(doc, "paths") ELSE doc
    IN Put(d1, "paths", Map(<<>>))

PathsOf(doc) == IF Has(doc, "paths") THEN Get(doc, "paths") ELSE [t |-> "undef"]

\* ============================ update: inputs =============================
Op == Str(<<"o","p">>)
apiX == <<"/","x">>
apiY == <<"/","y">>
kGet == <<"g","e","t">>
kPost == <<"p","o","s","t">>
kGETUpper == <<"G","E","T">>
kXInternal == <<"x","-","i","n","t","e","r","n","a","l">>
kDollarRef == <<"$","r","e","f">>
kFoo == <<"f","o","o">>

Entry(key, val) == [k |-> key, v |-> val]
Ops(keys) == Map([i \in 1..Len(keys) |-> Entry(keys[i], Op)])
PathDoc(entries) == <<Entry("paths", Map(entries))>>

\* the documents a path file may hold
PathFileDocs ==
    { PathDoc(<<Entry(apiX, Ops(<<kGet>>))>>),
      PathDoc(<<Entry(apiX, Ops(<<kPost, kGet>>))>>),
      PathDoc(<<Entry(apiX, Ops(<<kGETUpper, kXInternal>>)), Entry(apiY, Null)>>),
      PathDoc(<<Entry(apiY, Ops(<<kDollarRef, kFoo, kGet>>))>>),
      PathDoc(<<Entry(apiY, Ops(<<kGet>>)), Entry(apiX, Ops(<<kGet>>))>>),
      <<Entry("info", Str(<<"i">>))>> }

NestedDocs ==
    { PathDoc(<<Entry(apiX, Ops(<<kGet>>))>>),
      PathDoc(<<Entry(apiY, Ops(<<kDollarRef, kFoo, kGet>>))>>) }

FileNames == <<"a", "b", "c", "d", "e", "f">>
FileEntry(name, doc) == [kind |-> "file", name |-> name, doc |-> doc, entries |-> <<>>]
DirEntry(name, entries) == [kind |-> "dir", name |-> name, doc |-> <<>>, entries |-> entries]

\* what the i-th entry of the paths directory may be
EntriesAt(i) ==
    LET n == <<FileNames[i]>> IN
    { FileEntry(n \o <<".","y","a","m","l">>, d) : d \in PathFileDocs }
    \cup { DirEntry(n, <<FileEntry(n \o <<".","y","m","l">>, d)>>) : d \in NestedDocs }
    \cup { FileEntry(n \o <<".","t","x","t">>, <<>>) }

Trees ==
    { [exists |-> FALSE, entries |-> <<>>] }
    \cup { [exists |-> TRUE, entries |-> es] :
             es \in UNION { { f \in [1..n -> UNION { EntriesAt(i) : i \in 1..n }] :
                                \A i \in 1..n : f[i] \in EntriesAt(i) } : n \in 0..MaxFiles } }

StaleRef == Ref(<<".","/","o","l","d","#","/","x">>)

\* the main spec documents a run may start from
MainDocs ==
    { <<Entry("openapi", Str(<<"3">>)),
        Entry("paths", Map(<<Entry(<<"/","o">>, Map(<<Entry(kGet, Op), Entry(kFoo, Op)>>))>>)),
        Entry("info", Str(<<"i">>))>>,
      <<Entry("info", Str(<<"i">>))>>,
      <<Entry("openapi", Str(<<"3">>)), Entry("paths", Null), Entry("info", Str(<<"i">>))>>,
      <<Entry("info", Str(<<"i">>)),
        Entry("paths", Map(<<Entry(apiX, Map(<<Entry(kGet, StaleRef)>>))>>))>> }

\* ============================ update: actions ============================
NoPrev == [set |-> FALSE, doc |-> <<>>]

InitUpd ==
    /\ mainSpec \in MainDocs
    /\ tree \in Trees
    /\ pc = "start"
    /\ apiDocs = <<>>
    /\ pathFiles = <<>>
    /\ idx = 1
    /\ totalRefs = 0
    /\ exitCode = 0
    /\ writes = <<>>
    /\ filesRead = 0
    /\ dirChecked = FALSE
    /\ loadFailed = FALSE
    /\ writesAfterFail = 0
    /\ prevOut = [set |-> FALSE, doc |-> mainSpec]
    /\ runs = 1

UpdIdle ==
    /\ mainSpec = <<>> /\ tree = [exists |-> FALSE, entries |-> <<>>]
    /\ pc = "idle" /\ apiDocs = <<>> /\ pathFiles = <<>> /\ idx = 1
    /\ totalRefs = 0 /\ exitCode = 0 /\ writes = <<>> /\ filesRead = 0
    /\ dirChecked = FALSE /\ loadFailed = FALSE /\ writesAfterFail = 0
    /\ prevOut = NoPrev /\ runs = 1

WriteRec(doc) == [doc |-> doc, filesRead |-> filesRead, dirChecked |-> dirChecked]

\* saveYaml(apiDocsPath, data): the write and what the run records of it
SaveMain(writeOk, data, failedBefore) ==
    IF writeOk
    THEN /\ mainSpec' = data
         /\ writes' = Append(writes, WriteRec(data))
         /\ writesAfterFail' = writesAfterFail + (IF failedBefore THEN 1 ELSE 0)
    ELSE UNCHANGED <<mainSpec, writes, writesAfterFail>>

\* Step 1: load the main spec, drop paths, set paths = {}, save
ClearPhase(readOk, writeOk) ==
    /\ pc = "start"
    /\ LET loaded == loadYaml(readOk, mainSpec)
           cleared == ClearPaths(loaded)
       IN /\ apiDocs' = cleared
          /\ loadFailed' = ~readOk
          /\ SaveMain(writeOk, cleared, ~readOk)
    /\ IF writeOk THEN pc' = "cleared" /\ exitCode' = 0
                  ELSE pc' = "done" /\ exitCode' = 1
    /\ UNCHANGED <<tree, pathFiles, idx, totalRefs, filesRead, dirChecked, prevOut, runs>>
    /\ UNCHANGED <<gvars, pvars>>

\* a missing directory taken for an empty one
MissingPathsDirAsEmpty ==
    /\ pc = "cleared"
    /\ ~tree.exists
    /\ dirChecked' = TRUE
    /\ pc' = "done"
    /\ exitCode' = 0
    /\ UNCHANGED <<mainSpec, tree, apiDocs, pathFiles, idx, totalRefs, writes,
                   filesRead, loadFailed, writesAfterFail, prevOut, runs>>
    /\ UNCHANGED <<gvars, pvars>>

\* Step 2: the paths directory does not exist
MissingPathsDir ==
    /\ pc = "cleared"
    /\ ~tree.exists
    /\ dirChecked' = TRUE
    /\ pc' = "done"
    /\ exitCode' = 1
    /\ UNCHANGED <<mainSpec, tree, apiDocs, pathFiles, idx, totalRefs, writes,
                   filesRead, loadFailed, writesAfterFail, prevOut, runs>>
    /\ UNCHANGED <<gvars, pvars>>

\* Step 2: no path file found
NoPathFiles ==
    /\ pc = "cleared"
    /\ tree.exists
    /\ walkDir(pathsDir, tree.entries) = <<>>
    /\ dirChecked' = TRUE
    /\ pathFiles' = <<>>
    /\ pc' = "done"
    /\ exitCode' = 0
    /\ UNCHANGED <<mainSpec, tree, apiDocs, idx, totalRefs, writes,
                   filesRead, loadFailed, writesAfterFail, prevOut, runs>>
    /\ UNCHANGED <<gvars, pvars>>

\* Step 3 begins: the main spec is reloaded
ReloadMain(readOk) ==
    /\ pc = "cleared"
    /\ tree.exists
    /\ walkDir(pathsDir, tree.entries) # <<>>
    /\ dirChecked' = TRUE
    /\ pathFiles' = walkDir(pathsDir, tree.entries)
    /\ apiDocs' = loadYaml(readOk, mainSpec)
    /\ loadFailed' = (loadFailed \/ ~readOk)
    /\ totalRefs' = 0
    /\ idx' = 1
    /\ pc' = "rebuild"
    /\ UNCHANGED <<mainSpec, tree, exitCode, writes, filesRead, writesAfterFail,
                   prevOut, runs>>
    /\ UNCHANGED <<gvars, pvars>>

\* one iteration of for (const filePath of pathFiles)
ProcessFile(readOk) ==
    /\ pc = "rebuild"
    /\ idx <= Len(pathFiles)
    /\ LET filePath == pathFiles[idx]
           pathFile == loadYaml(readOk, FileAt(pathsDir, tree.entries, filePath))
           acc0 == [paths |-> PathsOf(apiDocs), total |-> totalRefs, threw |-> FALSE]
           acc == IF PathsOf(pathFile).t # "map" THEN acc0
                  ELSE ProcessPaths(acc0, filePath, PathsOf(pathFile).m)
       IN IF acc.threw
          THEN /\ pc' = "done"
               /\ exitCode' = 1
               /\ UNCHANGED <<apiDocs, totalRefs, idx>>
          ELSE /\ apiDocs' = IF acc.paths.t = "map"
                             THEN Put(apiDocs, "paths", acc.paths) ELSE apiDocs
               /\ totalRefs' = acc.total
               /\ idx' = idx + 1
               /\ UNCHANGED <<pc, exitCode>>
    /\ filesRead' = filesRead + 1
    /\ loadFailed' = (loadFailed \/ ~readOk)
    /\ UNCHANGED <<mainSpec, tree, pathFiles, writes, dirChecked, writesAfterFail,
                   prevOut, runs>>
    /\ UNCHANGED <<gvars, pvars>>

\* after the loop: save the rebuilt main spec
SaveRebuilt(writeOk) ==
    /\ pc = "rebuild"
    /\ idx > Len(pathFiles)
    /\ SaveMain(writeOk, apiDocs, loadFailed)
    /\ pc' = "done"
    /\ exitCode' = IF writeOk THEN 0 ELSE 1
    /\ UNCHANGED <<tree, apiDocs, pathFiles, idx, totalRefs, filesRead, dirChecked,
                   loadFailed, prevOut, runs>>
    /\ UNCHANGED <<gvars, pvars>>

\* the program is started again on the same tree
NextRun ==
    /\ pc = "done"
    /\ runs < MaxRuns
    /\ prevOut' = [set |-> TRUE, doc |-> mainSpec]
    /\ runs' = runs + 1
    /\ pc' = "start"
    /\ apiDocs' = <<>>
    /\ pathFiles' = <<>>
    /\ idx' = 1
    /\ totalRefs' = 0
    /\ exitCode' = 0
    /\ writes' = <<>>
    /\ filesRead' = 0
    /\ dirChecked' = FALSE
    /\ loadFailed' = FALSE
    /\ writesAfterFail' = 0
    /\ UNCHANGED <<mainSpec, tree>>
    /\ UNCHANGED <<gvars, pvars>>

GenIdle ==
    /\ gpc = "idle" /\ template = <<>> /\ method = <<>> /\ methodLower = <<>>
    /\ rawPath = <<>> /\ path = <<>> /\ pathOnly = <<>> /\ pathAnswers = <<>>
    /\ methodAnswers = <<>> /\ pathParams = <<>> /\ queryParams = <<>>
    /\ rendered = <<>> /\ output = <<>>

ParIdle ==
    /\ ppc = "idle" /\ inPathParams = <<>> /\ inQueryParams = <<>> /\ fragment = <<>>

\* update with every read and write succeeding
Next ==
    \/ ClearPhase(TRUE, TRUE)
    \/ MissingPathsDir
    \/ NoPathFiles
    \/ ReloadMain(TRUE)
    \/ ProcessFile(TRUE)
    \/ SaveRebuilt(TRUE)
    \/ NextRun

Init == InitUpd /\ GenIdle /\ ParIdle

Spec == Init /\ [][Next]_vars

\* update where a read or a write may fail
NextFault ==
    \/ \E r \in BOOLEAN, w \in BOOLEAN : ClearPhase(r, w)
    \/ MissingPathsDir
    \/ NoPathFiles
    \/ \E r \in BOOLEAN : ReloadMain(r)
    \/ \E r \in BOOLEAN : ProcessFile(r)
    \/ \E w \in BOOLEAN : SaveRebuilt(w)
    \/ NextRun

SpecFault == Init /\ [][NextFault]_vars

\* ============================ update: claims =============================
MethodTokens ==
    { <<"g","e","t">>, <<"p","o","s","t">>, <<"p","u","t">>, <<"p","a","t","c","h">>,
      <<"d","e","l","e","t","e">>, <<"h","e","a","d">>, <<"o","p","t","i","o","n","s">>,
      <<"t","r","a","c","e">>, <<"c","o","n","n","e","c","t">> }
IsMethodKey(key) ==
    /\ ToLowerCase(key) \in MethodTokens
    /\ ~(Len(key) >= 2 /\ key[1] = "x" /\ key[2] = "-")
    /\ ~(Len(key) >= 1 /\ key[1] = "$")

\* the discovered files, in traversal order, with their documents
Discovered == walkDir(pathsDir, tree.entries)
DiscoveredDocs ==
    LET files == Discovered
    IN [i \in 1..Len(files) |-> FileAt(pathsDir, tree.entries, files[i])]
\* document d holds key methodKey under apiPath
Holds(d, apiPath, methodKey) ==
    /\ Has(d, "paths") /\ Get(d, "paths").t = "map"
    /\ Has(Get(d, "paths").m, apiPath)
    /\ Get(Get(d, "paths").m, apiPath).t = "map"
    /\ Has(Get(Get(d, "paths").m, apiPath).m, methodKey)
ApiPathPool == {apiX, apiY}
KeyPool == {kGet, kPost, kGETUpper, kXInternal, kDollarRef, kFoo}
MainPaths == Get(mainSpec, "paths").m
RefPrefixOf(filePath) == <<".","/">> \o Drop(filePath, Len(baseDir) + 1) \o <<"#">>
Finished == pc = "done" /\ exitCode = 0 /\ pathFiles # <<>>

\* C1: two update runs in a row over an unchanged tree leave the main spec
\* after the second run identical to the main spec after the first run,
\* key order included.
C1_Idempotent ==
    (pc = "done" /\ prevOut.set) => mainSpec = prevOut.doc

\* C2: when two or more discovered files define the same (apiPath, method),
\* after a successful update paths[apiPath][method] holds exactly one
\* reference and it points into the file processed last; the run completes.
C2_LastWriteWins ==
    pc = "done" =>
      LET files == Discovered
          docs == DiscoveredDocs
          paths == MainPaths
      IN \A i \in 1..Len(files), j \in 1..Len(files), a \in ApiPathPool, m \in KeyPool :
           (i < j /\ IsMethodKey(m) /\ Holds(docs[i], a, m) /\ Holds(docs[j], a, m))
           => /\ exitCode = 0
              /\ Has(paths, a)
              /\ Cardinality({n \in 1..Len(Get(paths, a).m) :
                                 Get(paths, a).m[n].k = m}) = 1
              /\ LET last == CHOOSE l \in 1..Len(files) :
                                 /\ Holds(docs[l], a, m)
                                 /\ \A l2 \in 1..Len(files) : Holds(docs[l2], a, m) => l2 <= l
                 IN /\ Get(Get(paths, a).m, m).t = "ref"
                    /\ StartsWith(Get(Get(paths, a).m, m).s, RefPrefixOf(files[last]))

C2_Witness ==
    /\ Finished
    /\ LET docs == DiscoveredDocs
       IN \E i \in 1..Len(docs), j \in 1..Len(docs), a \in ApiPathPool, m \in KeyPool :
             i < j /\ IsMethodKey(m) /\ Holds(docs[i], a, m) /\ Holds(docs[j], a, m)

\* the number of (file, apiPath, key) triples whose key is a method
MethodTriples ==
    LET docs == DiscoveredDocs
    IN Cardinality({t \in (1..Len(docs)) \X ApiPathPool \X KeyPool :
                       IsMethodKey(t[3]) /\ Holds(docs[t[1]], t[2], t[3])})

\* C3: after an update run every key under every paths[apiPath] of the main
\* spec is one of the nine method tokens (case-insensitively) and starts with
\* neither x- nor $; x-internal, $ref and foo never become entries and
\* never count as references.
C3_SkipRule ==
    pc = "done" =>
        /\ LET paths == MainPaths
           IN \A n \in 1..Len(paths) :
                 \A k \in 1..Len(paths[n].v.m) : IsMethodKey(paths[n].v.m[k].k)
        /\ (exitCode = 0 /\ pathFiles # <<>>) => totalRefs = MethodTriples

C3_Witness ==
    /\ Finished
    /\ totalRefs > 0
    /\ LET docs == DiscoveredDocs
       IN /\ \E i \in 1..Len(docs), a \in ApiPathPool : Holds(docs[i], a, kXInternal)
          /\ \E i \in 1..Len(docs), a \in ApiPathPool :
                Holds(docs[i], a, kDollarRef) /\ Holds(docs[i], a, kFoo)

\* C4: a failed load of the main spec or of a path file aborts the run: non-zero
\* exit and no further write of the main spec.
C4_LoadFailureAborts ==
    (pc = "done" /\ loadFailed) => (exitCode # 0 /\ writesAfterFail = 0)

\* C5: with the paths directory missing the run ends with a non-zero exit, no
\* path file is read, the Rebuild phase is not entered, and the main spec on
\* disk is what the Clear phase wrote: paths = {}, the other root keys as loaded.
C5_MissingDir ==
    ~tree.exists =>
        /\ pc # "rebuild"
        /\ filesRead = 0
        /\ pc = "done" =>
              /\ exitCode = 1
              /\ Len(writes) = 1
              /\ mainSpec = writes[1].doc
              /\ Get(mainSpec, "paths") = Map(<<>>)
              /\ Del(mainSpec, "paths") = Del(prevOut.doc, "paths")

C5_Witness == ~tree.exists /\ pc = "done" /\ Len(prevOut.doc) > 1

\* C6: every run first writes the main spec with paths = {} before the paths
\* directory is tested and before any path file is read; a run that discovers
\* files writes exactly once more, after all of them are processed, and the
\* disk holds paths = {} in between; a run that discovers none writes no
\* second time, leaves paths = {} and exits with 0.
C6_TwoWrites ==
    /\ pc # "start" =>
          /\ Len(writes) >= 1
          /\ Get(writes[1].doc, "paths") = Map(<<>>)
          /\ writes[1].filesRead = 0
          /\ ~writes[1].dirChecked
    /\ pc \in {"cleared", "rebuild"} =>
          /\ Len(writes) = 1
          /\ Get(mainSpec, "paths") = Map(<<>>)
    /\ (pc = "done" /\ tree.exists /\ Discovered # <<>>) =>
          /\ Len(writes) = 2
          /\ writes[2].filesRead = Len(Discovered)
          /\ mainSpec = writes[2].doc
    /\ (pc = "done" /\ tree.exists /\ Discovered = <<>>) =>
          /\ Len(writes) = 1
          /\ exitCode = 0
          /\ Get(mainSpec, "paths") = Map(<<>>)

C6_Witness ==
    /\ pc = "done" /\ Len(writes) = 2 /\ Len(Discovered) = 2
    /\ Get(mainSpec, "paths") # Map(<<>>)

C6_WitnessEmpty ==
    pc = "done" /\ tree.exists /\ Discovered = <<>> /\ Len(tree.entries) > 0

\* =========================== generate: helpers ===========================
validMethodsGenerator ==
    << <<"g","e","t">>, <<"p","o","s","t">>, <<"p","u","t">>,
       <<"p","a","t","c","h">>, <<"d","e","l","e","t","e">>,
       <<"h","e","a","d">>, <<"o","p","t","i","o","n","s">>,
       <<"t","r","a","c","e">>, <<"c","o","n","n","e","c","t">> >>

IsSpace(c) == c \in {" ", "\n", "\t", "\r"}
RECURSIVE TrimStart(_)
TrimStart(s) == IF s # <<>> /\ IsSpace(Head(s)) THEN TrimStart(Tail(s)) ELSE s
RECURSIVE TrimEnd(_)
TrimEnd(s) ==
    IF s # <<>> /\ IsSpace(s[Len(s)]) THEN TrimEnd(SubSeq(s, 1, Len(s) - 1)) ELSE s
Trim(s) == TrimEnd(TrimStart(s))

\* s.split(c) for a one-character separator: the pieces, in order
RECURSIVE Split(_, _)
Split(s, c) ==
    IF ~Includes(s, c) THEN <<s>>
    ELSE LET i == CHOOSE n \in 1..Len(s) : s[n] = c /\ \A k \in 1..(n - 1) : s[k] # c
         IN <<SubSeq(s, 1, i - 1)>> \o Split(Drop(s, i), c)

\* pieces.join(sep)
RECURSIVE JoinWith(_, _)
JoinWith(pieces, sep) ==
    IF pieces = <<>> THEN <<>>
    ELSE IF Len(pieces) = 1 THEN pieces[1]
    ELSE pieces[1] \o sep \o JoinWith(Tail(pieces), sep)

\* str.replace(/[{}]/g, '')
StripBraces(s) == SelectSeq(s, LAMBDA c : c \notin {"{", "}"})

PathEntryHead == <<" "," "," "," "," "," "," "," ","-"," ","i","n",":"," ","p","a","t","h","\n"," "," "," "," "," "," "," "," "," "," ","n","a","m","e",":"," ">>
PathEntryTail == <<"\n"," "," "," "," "," "," "," "," "," "," ","r","e","q","u","i","r","e","d",":"," ","t","r","u","e","\n"," "," "," "," "," "," "," "," "," "," ","t","y","p","e",":"," ","s","t","r","i","n","g","\n">>
QueryEntryHead == <<" "," "," "," "," "," "," "," ","-"," ","i","n",":"," ","q","u","e","r","y","\n"," "," "," "," "," "," "," "," "," "," ","n","a","m","e",":"," ">>
QueryEntryTail == <<"\n"," "," "," "," "," "," "," "," "," "," ","t","y","p","e",":"," ","s","t","r","i","n","g","\n">>

RECURSIVE ParamsText(_, _, _)
ParamsText(params, head, tail) ==
    IF params = <<>> THEN <<>>
    ELSE (IF Trim(Head(params)) # <<>> THEN head \o Head(params) \o tail ELSE <<>>)
         \o ParamsText(Tail(params), head, tail)

RECURSIVE ParamsTextAll(_, _, _)
ParamsTextAll(params, head, tail) ==
    IF params = <<>> THEN <<>>
    ELSE head \o Head(params) \o tail \o ParamsTextAll(Tail(params), head, tail)

\* query parameters emitted without the blank test
generateParametersYamlNoTest(pParams, qParams) ==
    ParamsText(pParams, PathEntryHead, PathEntryTail)
        \o ParamsTextAll(qParams, QueryEntryHead, QueryEntryTail)

generateParametersYaml(pParams, qParams) ==
    ParamsText(pParams, PathEntryHead, PathEntryTail)
        \o ParamsText(qParams, QueryEntryHead, QueryEntryTail)

EmptyArrayMarker == <<" "," "," "," "," "," "," "," ","[","]","\n">>
\* paramsYaml.trim() ? paramsYaml : '        []\n'
finalParamsYaml(paramsYaml) ==
    IF Trim(paramsYaml) # <<>> THEN paramsYaml ELSE EmptyArrayMarker

\* the checks without the one for ':'
PathErrorNoColon(p) ==
    IF Trim(p) = <<>> THEN "empty"
    ELSE IF ~StartsWith(p, <<"/">>) THEN "slash"
    ELSE IF Len(Split(p, "?")) > 2 THEN "multi"
    ELSE "ok"

\* which check of validatePath's loop rejects the path, or "ok"
PathError(p) ==
    IF Trim(p) = <<>> THEN "empty"
    ELSE IF ~StartsWith(p, <<"/">>) THEN "slash"
    ELSE IF Includes(p, ":") THEN "colon"
    ELSE IF Len(Split(p, "?")) > 2 THEN "multi"
    ELSE "ok"

\* pathStr.match(/{[^}]*}/g), braces removed from each match
RECURSIVE extractPathParams(_)
extractPathParams(pathStr) ==
    IF ~Includes(pathStr, "{") THEN <<>>
    ELSE LET i == CHOOSE n \in 1..Len(pathStr) :
                      pathStr[n] = "{" /\ \A k \in 1..(n - 1) : pathStr[k] # "{"
             rest == Drop(pathStr, i)
         IN IF ~Includes(rest, "}") THEN <<>>
            ELSE LET j == CHOOSE n \in 1..Len(rest) :
                              rest[n] = "}" /\ \A k \in 1..(n - 1) : rest[k] # "}"
                 IN <<StripBraces(SubSeq(rest, 1, j - 1))>>
                    \o extractPathParams(Drop(rest, j))

extractQueryParams(pathStr) ==
    IF ~Includes(pathStr, "?") THEN <<>>
    ELSE LET queryStr == Split(pathStr, "?")[2]
             segs == Split(queryStr, "&")
         IN [i \in 1..Len(segs) |-> Split(segs[i], "=")[1]]

generateOpPath(pathStr) ==
    StripBraces(JoinWith(SelectSeq(Split(Split(pathStr, "?")[1], "/"),
                                   LAMBDA p : p # <<>>), <<"-">>))

\* one variable of replaceTemplateVars' loop
Placeholder(key) == <<"{","{">> \o key \o <<"}","}">>
RECURSIVE replaceTemplateVars(_, _)
replaceTemplateVars(text, variables) ==
    IF variables = <<>> THEN text
    ELSE replaceTemplateVars(
           ReplaceAll(text, Placeholder(Head(variables).k), Head(variables).v),
           Tail(variables))

apiVersion == <<"1">>

\* the variables object, in the order of its keys
Variables(pOnly, mLower, title, domain, author, fParams) ==
    << [k |-> <<"P","A","T","H">>, v |-> Split(pOnly, "?")[1]],
       [k |-> <<"M","E","T","H","O","D","_","L","O","W","E","R">>, v |-> mLower],
       [k |-> <<"M","E","T","H","O","D","_","U","P","P","E","R">>, v |-> ToUpperCase(mLower)],
       [k |-> <<"O","P","_","P","A","T","H">>, v |-> generateOpPath(pOnly)],
       [k |-> <<"T","I","T","L","E">>, v |-> title],
       [k |-> <<"T","A","G">>, v |-> domain],
       [k |-> <<"A","P","I","_","V","E","R","S","I","O","N">>, v |-> apiVersion],
       [k |-> <<"A","U","T","H","O","R">>,
        v |-> <<"[">> \o author \o <<"]","(","h","t","t","p","s",":","/","/","g","i","t","h","u","b",".","c","o","m","/">> \o author \o <<")">>],
       [k |-> <<"P","A","R","A","M","E","T","E","R","S">>, v |-> TrimEnd(fParams)] >>

\* a newline added whatever the text ends with
AddTrailingNewlineAlways(text) == text \o <<"\n">>

\* if (!output.endsWith('\n')) output += '\n'
AddTrailingNewline(text) ==
    IF ~EndsWith(text, <<"\n">>) THEN text \o <<"\n">> ELSE text

\* =========================== generate: inputs ============================
Templates ==
    { <<"{","{","P","A","T","H","}","}",":","\n"," "," ","{","{","M","E","T","H","O","D","_","L","O","W","E","R","}","}",":","\n","{","{","P","A","R","A","M","E","T","E","R","S","}","}">>,
      <<"{","{","O","P","_","P","A","T","H","}","}","\n","{","{","P","A","R","A","M","E","T","E","R","S","}","}","\n">>,
      <<"{","{","T","I","T","L","E","}","}"," ","{","{","X","}","}"," ","{","{","A","U","T","H","O","R","}","}","\n","\n">>,
      <<>> }

MethodAnswers == { <<"G","E","T">>, <<"P","o","s","t">>, <<"f","o","o">> }

PathAnswers ==
    { <<>>, <<" ">>, <<"a","?","q","=","1">>, <<"/","a","/",":","i","d">>, <<"/","a","?","x","?","y">>,
      <<"/","a","/","{","i","d","}","/","{","}">>, <<"/","a","?","x","=","1","&","y">>, <<"/","b","?">>, <<"/","a">> }

Titles == { <<"T">> }
Domains == { <<"d">> }
Authors == { <<"m","e">> }

\* =========================== generate: actions ===========================
InitGen ==
    /\ gpc = "askMethod"
    /\ template \in Templates
    /\ method = <<>> /\ methodLower = <<>> /\ rawPath = <<>> /\ path = <<>>
    /\ pathOnly = <<>> /\ pathAnswers = <<>> /\ methodAnswers = <<>>
    /\ pathParams = <<>> /\ queryParams = <<>> /\ rendered = <<>> /\ output = <<>>

\* the method prompt, and validateMethod's first toLowerCase
AskMethod ==
    /\ gpc = "askMethod"
    /\ \E ans \in MethodAnswers :
          /\ method' = ToLowerCase(ans)
          /\ methodAnswers' = <<ans>>
    /\ gpc' = "validateMethod"
    /\ UNCHANGED <<template, methodLower, rawPath, path, pathOnly, pathAnswers,
                   pathParams, queryParams, rendered, output>>
    /\ UNCHANGED <<uvars, pvars>>

\* validateMethod's loop body: the method is not valid, ask again
RepromptMethod ==
    /\ gpc = "validateMethod"
    /\ ~InList(validMethodsGenerator, method)
    /\ Len(methodAnswers) <= MaxRetries
    /\ \E ans \in MethodAnswers :
          /\ method' = ToLowerCase(ans)
          /\ methodAnswers' = Append(methodAnswers, ans)
    /\ UNCHANGED <<gpc, template, methodLower, rawPath, path, pathOnly, pathAnswers,
                   pathParams, queryParams, rendered, output>>
    /\ UNCHANGED <<uvars, pvars>>

\* validateMethod returns
ReturnMethod ==
    /\ gpc = "validateMethod"
    /\ InList(validMethodsGenerator, method)
    /\ methodLower' = method
    /\ gpc' = "askPath"
    /\ UNCHANGED <<template, method, rawPath, path, pathOnly, pathAnswers,
                   methodAnswers, pathParams, queryParams, rendered, output>>
    /\ UNCHANGED <<uvars, pvars>>

\* the path prompt
AskPath ==
    /\ gpc = "askPath"
    /\ \E ans \in PathAnswers :
          /\ rawPath' = ans
          /\ path' = ans
          /\ pathAnswers' = <<ans>>
    /\ gpc' = "validatePath"
    /\ UNCHANGED <<template, method, methodLower, pathOnly, methodAnswers,
                   pathParams, queryParams, rendered, output>>
    /\ UNCHANGED <<uvars, pvars>>

\* validatePath's loop: a check rejects the path, ask again
RepromptPath ==
    /\ gpc = "validatePath"
    /\ PathError(path) # "ok"
    /\ Len(pathAnswers) <= MaxRetries
    /\ \E ans \in PathAnswers :
          /\ path' = ans
          /\ pathAnswers' = Append(pathAnswers, ans)
    /\ UNCHANGED <<gpc, template, method, methodLower, rawPath, pathOnly,
                   methodAnswers, pathParams, queryParams, rendered, output>>
    /\ UNCHANGED <<uvars, pvars>>

\* validatePath returns, then the parameters are extracted
ReturnPath ==
    /\ gpc = "validatePath"
    /\ PathError(path) = "ok"
    /\ pathOnly' = path
    /\ pathParams' = extractPathParams(path)
    /\ queryParams' = extractQueryParams(rawPath)
    /\ gpc' = "generate"
    /\ UNCHANGED <<template, method, methodLower, rawPath, path, pathAnswers,
                   methodAnswers, rendered, output>>
    /\ UNCHANGED <<uvars, pvars>>

\* title, domain and author are read, the stub is built and written
Generate ==
    /\ gpc = "generate"
    /\ \E title \in Titles, domain \in Domains, author \in Authors :
          LET paramsYaml == generateParametersYaml(pathParams, queryParams)
              r == replaceTemplateVars(template,
                     Variables(pathOnly, methodLower, title, domain, author,
                               finalParamsYaml(paramsYaml)))
          IN /\ rendered' = r
             /\ output' = AddTrailingNewline(r)
    /\ gpc' = "written"
    /\ UNCHANGED <<template, method, methodLower, rawPath, path, pathOnly,
                   pathAnswers, methodAnswers, pathParams, queryParams>>
    /\ UNCHANGED <<uvars, pvars>>

NextGen ==
    \/ AskMethod
    \/ RepromptMethod
    \/ ReturnMethod
    \/ AskPath
    \/ RepromptPath
    \/ ReturnPath
    \/ Generate

InitG == UpdIdle /\ InitGen /\ ParIdle

SpecGen == InitG /\ [][NextGen]_vars

\* ====================== parameters fragment alone ========================
ParamNames == { <<>>, <<" ">>, <<"i","d">>, <<"q">> }
ParamLists == UNION { [1..n -> ParamNames] : n \in 0..MaxParams }

InitParams ==
    /\ ppc = "input"
    /\ inPathParams \in ParamLists
    /\ inQueryParams \in ParamLists
    /\ fragment = <<>>

BuildFragment ==
    /\ ppc = "input"
    /\ fragment' = finalParamsYaml(generateParametersYaml(inPathParams, inQueryParams))
    /\ ppc' = "done"
    /\ UNCHANGED <<inPathParams, inQueryParams>>
    /\ UNCHANGED <<uvars, gvars>>

NextParams == BuildFragment

InitP == UpdIdle /\ GenIdle /\ InitParams

SpecParams == InitP /\ [][NextParams]_vars

\* =========================== generate: claims ============================
CountChar(s, c) == Cardinality({i \in 1..Len(s) : s[i] = c})
\* the path a validation may accept, as the claim words it
PathValid(p) ==
    /\ p # <<>>
    /\ p[1] = "/"
    /\ CountChar(p, ":") = 0
    /\ CountChar(p, "?") <= 1
MethodValid(ans) == ToLowerCase(ans) \in MethodTokens

\* C7: the stub written ends with exactly one newline.
C7_ExactlyOneNewline ==
    gpc = "written" =>
        /\ Len(output) >= 1
        /\ output[Len(output)] = "\n"
        /\ Len(output) >= 2 => output[Len(output) - 1] # "\n"

\* C7 as amended: the stub written ends with a newline; one newline is added
\* when the substituted template does not end with one and none otherwise, so
\* newlines the template ends with are kept.
C7_EndsWithNewline ==
    gpc = "written" =>
        /\ Len(output) >= 1
        /\ output[Len(output)] = "\n"
        /\ IF rendered # <<>> /\ rendered[Len(rendered)] = "\n"
           THEN output = rendered
           ELSE output = rendered \o <<"\n">>

C7_Witness ==
    /\ gpc = "written"
    /\ rendered # <<>>
    /\ rendered[Len(rendered)] # "\n"
    /\ output = rendered \o <<"\n">>

C7_WitnessKept ==
    /\ gpc = "written"
    /\ Len(rendered) >= 2
    /\ rendered[Len(rendered)] = "\n" /\ rendered[Len(rendered) - 1] = "\n"
    /\ output = rendered

\* the entries of a parameters fragment, read back line by line
RECURSIVE ReadEntries(_, _)
ReadEntries(lines, acc) ==
    IF lines = <<>> THEN acc
    ELSE LET l == Head(lines)
             t == TrimStart(l)
             n == Len(acc)
         IN IF StartsWith(t, <<"-"," ","i","n",":"," ">>)
            THEN ReadEntries(Tail(lines),
                   Append(acc, [in |-> Drop(t, 6), name |-> <<>>, named |-> FALSE,
                                required |-> FALSE, type |-> <<>>]))
            ELSE IF n > 0 /\ ~acc[n].named /\ StartsWith(t, <<"n","a","m","e",":"," ">>)
            THEN ReadEntries(Tail(lines),
                   [acc EXCEPT ![n].name = Drop(t, 6), ![n].named = TRUE])
            ELSE IF n > 0 /\ t = <<"r","e","q","u","i","r","e","d",":"," ","t","r","u","e">>
            THEN ReadEntries(Tail(lines), [acc EXCEPT ![n].required = TRUE])
            ELSE IF n > 0 /\ StartsWith(t, <<"t","y","p","e",":"," ">>)
            THEN ReadEntries(Tail(lines), [acc EXCEPT ![n].type = Drop(t, 6)])
            ELSE ReadEntries(Tail(lines), acc)
EntriesOf(text) == ReadEntries(Split(text, "\n"), <<>>)

PathParamEntry(name) ==
    [in |-> <<"p","a","t","h">>, name |-> name, named |-> TRUE, required |-> TRUE, type |-> <<"s","t","r","i","n","g">>]
QueryParamEntry(name) ==
    [in |-> <<"q","u","e","r","y">>, name |-> name, named |-> TRUE, required |-> FALSE, type |-> <<"s","t","r","i","n","g">>]
EntriesFor(pParams, qParams) ==
    [i \in 1..Len(pParams) |-> PathParamEntry(pParams[i])]
        \o [i \in 1..Len(qParams) |-> QueryParamEntry(qParams[i])]
IsMarker(text) == Trim(text) = <<"[","]">>
NonBlank(list) == SelectSeq(list, LAMBDA s : \E i \in 1..Len(s) : ~IsSpace(s[i]))

\* C8: the fragment holds one path entry per path parameter, in order, then
\* one query entry per query parameter, in order, an empty-string parameter
\* included; the empty-array marker is emitted iff both lists are empty.
C8_EveryParameter ==
    ppc = "done" =>
        /\ IsMarker(fragment) <=> (inPathParams = <<>> /\ inQueryParams = <<>>)
        /\ ~IsMarker(fragment) =>
              EntriesOf(fragment) = EntriesFor(inPathParams, inQueryParams)

\* C8 as amended: the fragment holds one path entry per path parameter that is
\* not blank (empty or only white space), in order, then one query entry per
\* query parameter that is not blank, in order; the empty-array marker is
\* emitted iff neither list holds a parameter that is not blank.
C8_NonBlankParameters ==
    ppc = "done" =>
        /\ IsMarker(fragment) <=>
              (NonBlank(inPathParams) = <<>> /\ NonBlank(inQueryParams) = <<>>)
        /\ ~IsMarker(fragment) =>
              EntriesOf(fragment) = EntriesFor(NonBlank(inPathParams), NonBlank(inQueryParams))

C8_Witness ==
    /\ ppc = "done"
    /\ ~IsMarker(fragment)
    /\ Len(NonBlank(inPathParams)) = 2
    /\ Len(NonBlank(inQueryParams)) = 1 /\ Len(inQueryParams) = 2

C8_WitnessMarker ==
    ppc = "done" /\ IsMarker(fragment) /\ inPathParams = <<>> /\ inQueryParams = <<>>

RECURSIVE UpTo(_, _)
UpTo(s, c) == IF s = <<>> \/ Head(s) = c THEN <<>> ELSE <<Head(s)>> \o UpTo(Tail(s), c)
RECURSIVE After(_, _)
After(s, c) == IF s = <<>> THEN <<>> ELSE IF Head(s) = c THEN Tail(s) ELSE After(Tail(s), c)
RECURSIVE Segments(_)
Segments(q) ==
    IF ~Includes(q, "&") THEN <<UpTo(q, "=")>>
    ELSE <<UpTo(UpTo(q, "&"), "=")>> \o Segments(After(q, "&"))
parseQueryParameters(p) == IF ~Includes(p, "?") THEN <<>> ELSE Segments(After(p, "?"))

\* C10: the query parameters put into the stub are those of the path that
\* validation accepted, whatever answers were rejected before it.
C10_QueryFromAcceptedPath ==
    gpc \in {"generate", "written"} => queryParams = parseQueryParameters(pathOnly)

\* when the first answer is accepted the two derivations agree
C10_FirstAnswerAccepted ==
    (gpc \in {"generate", "written"} /\ Len(pathAnswers) = 1)
        => queryParams = parseQueryParameters(pathOnly)

====
